---- MODULE Spec2Model ----
(***************************************************************************)
(* Boosty downloader: the incremental sync and resumable-download engine.  *)
(*                                                                         *)
(*   Spec    the Pagination Driver (core/launchers.py _fetch_media and     *)
(*           fetch_and_save_posts) with the Sync Checkpoint Store, the     *)
(*           process crashing and being started again (main.py).           *)
(*   DlSpec  the Download Manager's per-item procedure                     *)
(*           (core/downloader.py) over a small file system.                *)
(***************************************************************************)
EXTENDS Integers, Sequences, FiniteSets, TLC

(***************************************************************************)
(* Bounds of the model.                                                    *)
(***************************************************************************)
MaxPages == 3
MaxOff == 2
MaxRuns == 3
MaxErrors == 1

\* Python's None, for the optional integers (parsed offsets, completed_offset).
None == -1
\* The absent page token (None, or the empty string).
NoToken == [ts |-> None, pos |-> 0]

\* Python truthiness of an optional integer: None and 0 are both false.
Truthy(x) == x # None /\ x # 0
\* Python truthiness of an optional token string.
TruthyToken(t) == t # NoToken

Max(a, b) == IF a >= b THEN a ELSE b

(***************************************************************************)
(* The remote feed (boosty.api, not part of the sources): a fixed sequence *)
(* of pages, newest first.  feed[k] is the numeric part of the offset      *)
(* token page k returns; only the last page may return no token.           *)
(***************************************************************************)
Offsets == 0..MaxOff

NewestFirst(f) ==
    /\ \A k \in 1..(Len(f) - 1) : f[k] # None
    /\ \A j, k \in 1..Len(f) : (j < k /\ f[k] # None) => f[j] >= f[k]

Feeds ==
    {f \in UNION {[1..n -> Offsets \cup {None}] : n \in 1..MaxPages} : NewestFirst(f)}

\* The page a fetch with this offset token returns.
PagePos(off) == IF off = NoToken THEN 1 ELSE off.pos + 1

\* The token page k returns.
TokenOf(f, k) == IF f[k] = None THEN NoToken ELSE [ts |-> f[k], pos |-> k]

\* get_all_media_by_type / get_all_posts: (is_last, got_offset) of the page.
get_all_media_by_type(f, off) ==
    [is_last |-> (PagePos(off) >= Len(f)), got_offset |-> TokenOf(f, PagePos(off))]

\* core.utils.parse_offset_time: the numeric part of the token, None without one.
parse_offset_time(tok) == IF tok = NoToken THEN None ELSE tok.ts

(***************************************************************************)
(* The two items of a page.  In media mode one Downloader takes the whole  *)
(* page; in post mode the page holds two posts, each with one item and its *)
(* own Downloader.                                                         *)
(***************************************************************************)
ItemsOf(p) == {<<p, 1>>, <<p, 2>>}
AllItems == UNION {ItemsOf(p) : p \in 1..MaxPages}

UnitsOf(m, p) ==
    IF m = "media" THEN << ItemsOf(p) >> ELSE << {<<p, 1>>}, {<<p, 2>>} >>

(***************************************************************************)
(* Lines of _fetch_media / fetch_and_save_posts as operators.              *)
(***************************************************************************)
\* launchers.py 42-45 / 172-175: eot from the stored completed offset.
EotOf(last) == IF Truthy(last) THEN last ELSE None

\* launchers.py 56-57 / 179-180.
NewFot(f, parsed) == IF f = None /\ Truthy(parsed) THEN parsed ELSE f

\* launchers.py 58-62 / 181-185: the loop's stop flag after the page.
IsLast(api_last, e, parsed) ==
    api_last \/ (Truthy(e) /\ Truthy(parsed) /\ parsed <= e)

\* launchers.py 74 / 243: whether the runtime offset is written after the unit.
WritesRuntime(off) == TruthyToken(off)

\* Mutant: the token of the next page is checkpointed instead.
RuntimeToWrite_Next(off, got) == got

\* launchers.py 75 / 244: the runtime offset written after the unit is the token
\* the page was fetched with, not the one it returned.
RuntimeToWrite(off, got) == off

\* Mutant: the runtime offset survives the end of the stream.
RuntimeAtEnd_Kept(cur) == cur

\* launchers.py 81 / 253: the runtime offset written when the loop has ended.
RuntimeAtEnd(cur) == NoToken

\* Mutant: the completed offset is overwritten without the comparison.
RaisedCompleted_NoGuard(cur, f) == IF Truthy(f) THEN f ELSE cur

\* launchers.py 82-87 / 255-260: the completed offset after the stream's end.
RaisedCompleted(cur, f) ==
    IF Truthy(f)
    THEN IF cur = None THEN f
         ELSE IF cur < f THEN f ELSE cur
    ELSE cur

\* Mutant: the page's downloads are awaited until the first one returns.
GatherReturned_Any(statuses, unitItems) == \E i \in unitItems : statuses[i] = "done"

\* launchers.py 72 / 242: asyncio.gather returns when every task has.
GatherReturned(statuses, unitItems) == \A i \in unitItems : statuses[i] = "done"

VARIABLES
    mode,          \* "media" (_fetch_media) or "posts" (fetch_and_save_posts)
    writeThrough,  \* whether SyncData's setters persist at once, or only save()
    feed,          \* the remote feed
    disk,          \* the checkpoint file: [completed, runtime]
    mem,           \* the SyncData object of the running process
    files,         \* the items whose final file exists
    pc,            \* position of the stream's task
    offset, eot, fot, is_last, got_offset,
    page,          \* position of the page being processed (0: none)
    unit,          \* index of the Downloader invocation within the page
    st,            \* status of the page's item downloads
    outcome,       \* outcome of the page's item downloads
    runs,          \* processes started so far
    hist           \* history of the run, read by the properties only

\* The Download Manager (core/downloader.py) and its file system.
VARIABLES
    pool,          \* the items of the media pool: [path, playlist, meta]
    width,         \* max_parallel_downloads, the width of self._semaphore
    save_meta,     \* conf.save_metadata
    fsdir,         \* directory: name -> inode (0: no such file)
    inodes,        \* inode -> the chunks it holds
    tpc,           \* position of each item's task
    fd,            \* the inode each task's download_file writes to (0: none)
    pos,           \* chunks each task's download_file has written
    result,        \* what _get_file_and_raise_stat returned for the item
    stats,         \* stat_tracker's counters
    incomplete_files, \* stat_tracker's incomplete-files list
    invocations,   \* Downloader invocations started so far
    returned,      \* what each kind's download (download_photos, ...) returned
    processed,     \* history: the outcomes returned in this process, by kind
    dhist          \* history of the item procedures, read by the properties only

streamVars == <<mode, writeThrough, feed, disk, mem, files, pc, offset, eot, fot,
                is_last, got_offset, page, unit, st, outcome, runs, hist>>

dlVars == <<pool, width, save_meta, fsdir, inodes, tpc, fd, pos, result, stats,
            incomplete_files, invocations, returned, processed, dhist>>

\* The Path Registry (core.post_mapping) as launchers.py uses it.
VARIABLES
    registry,      \* per creator, the rows of post.db: [post_id, post_path]
    rhist          \* history of the resolves, read by the properties only

regVars == <<registry, rhist>>

\* The Sync Orchestrator: the syncs that run at the same time in one process
\* (main.py 89-223 link-list mode, launchers.py fetch_and_save_media,
\* fetch_and_save_posts), each with its own Downloader.
VARIABLES
    run_mode,      \* "links", "media" or "posts"
    max_download_parallel,  \* conf.max_download_parallel
    enable_post_masquerade, \* conf.enable_post_masquerade
    store_ok,      \* per creator: whether ensure_post_database_exists succeeds
    links,         \* per task: [creator, post_id, title] of the post it syncs
    lpc,           \* position of each task
    post_db_lock,  \* per creator: the task holding _post_db_locks[post.db], 0: free
    lpath,         \* per task: the local post_path
    litems,        \* per task: the state of the items of its Downloader
    lstatus,       \* per task: what the sync returned
    rounds,        \* per task: Downloaders it has created
    shist,         \* history of the syncs, read by the properties only
    batch,         \* link-list mode: main's lists of links and files, its position
    post_db_client \* per sync: its path-registry client ("none", "open", "closed")

syncVars == <<run_mode, max_download_parallel, enable_post_masquerade, store_ok, links,
              lpc, post_db_lock, lpath, litems, lstatus, rounds, shist, batch,
              post_db_client>>

vars == <<streamVars, dlVars, regVars, syncVars>>

NoStatus == [i \in AllItems |-> "none"]

FreshHist(d, start, prev) ==
    [ fetched |-> << >>,          \* page positions fetched in this run
      oldCompleted |-> d.completed,
      firstParsed |-> None,       \* parsed offset of the first page of the run
      hwPage |-> 0,               \* first page with parsed offset <= completed
      resumed |-> (start # NoToken),
      downloaded |-> {},          \* items with outcome downloaded in this run
      crashes |-> prev.crashes,
      graceful |-> prev.graceful, \* runs that ended gracefully before this one
      lastDone |-> prev.lastDone, \* completed offset after the last graceful run
      base |-> prev.base,         \* completed offset before the first run
      errors |-> prev.errors,     \* transfers that have failed so far
      afterGraceful |-> prev.afterGraceful, \* the run before ended gracefully
      rtAtStart |-> d.runtime,    \* runtime offset on disk when the run began
      finished |-> prev.finished, \* pages whose downloads have all returned, in any run
      saveFailed |-> FALSE,       \* a save of the checkpoint has failed in this run
      tokens |-> << >> ]          \* the tokens the run's pages were fetched with

StreamInit ==
    /\ mode \in {"media", "posts"}
    /\ writeThrough \in BOOLEAN
    /\ feed \in Feeds
    /\ disk \in [completed : {None} \cup (1..MaxOff), runtime : {NoToken}]
    /\ mem = disk
    /\ files = {}
    /\ pc = "boot"
    /\ offset = NoToken /\ eot = None /\ fot = None /\ is_last = FALSE
    /\ got_offset = NoToken
    /\ page = 0 /\ unit = 0
    /\ st = NoStatus /\ outcome = NoStatus
    /\ runs = 1
    /\ hist = FreshHist(disk, NoToken,
                        [crashes |-> 0, graceful |-> 0, lastDone |-> None,
                         base |-> disk.completed, errors |-> 0,
                         afterGraceful |-> FALSE, finished |-> {}])

\* SyncData setters (core.sync_data): in memory, and on disk when write-through.
SetField(field, value) ==
    /\ mem' = [mem EXCEPT ![field] = value]
    /\ disk' = IF writeThrough THEN [disk EXCEPT ![field] = value] ELSE disk

\* main.py 250-275 / 276-291 and launchers.py 38-45 / 169-175: the process
\* starts, loads the checkpoint, offers to resume, and the stream begins.
Main ==
    /\ pc = "boot"
    /\ \E answer \in BOOLEAN :
        LET start == IF TruthyToken(disk.runtime) /\ answer
                     THEN disk.runtime ELSE NoToken
        IN  /\ TruthyToken(disk.runtime) \/ answer
            /\ offset' = start
            /\ hist' = FreshHist(disk, start, hist)
    /\ mem' = disk
    /\ eot' = EotOf(disk.completed)
    /\ fot' = None
    /\ is_last' = FALSE
    /\ pc' = "fetch"
    /\ UNCHANGED <<dlVars, regVars, syncVars, mode, writeThrough, feed, disk, files, got_offset, page, unit,
                   st, outcome, runs>>

\* launchers.py 46-63 / 176-186: one page is fetched and judged.
FetchPage ==
    /\ pc = "fetch"
    /\ LET r == get_all_media_by_type(feed, offset)
           parsed == parse_offset_time(r.got_offset)
           p == PagePos(offset)
       IN  /\ got_offset' = r.got_offset
           /\ fot' = NewFot(fot, parsed)
           /\ is_last' = IsLast(r.is_last, eot, parsed)
           /\ page' = p
           /\ st' = [i \in AllItems |-> IF i \in ItemsOf(p) THEN "pending" ELSE "none"]
           /\ hist' = [hist EXCEPT
                  !.fetched = Append(@, p),
                  !.firstParsed = IF hist.fetched = << >> THEN parsed ELSE @,
                  !.hwPage = IF @ = 0 /\ parsed # None /\ hist.oldCompleted # None
                                /\ parsed <= hist.oldCompleted
                             THEN p ELSE @,
                  !.tokens = Append(@, offset)]
    /\ unit' = 1
    /\ outcome' = NoStatus
    /\ pc' = "download"
    /\ UNCHANGED <<dlVars, regVars, syncVars, mode, writeThrough, feed, disk, mem, files, offset, eot, runs>>

CurrentUnit == UnitsOf(mode, page)[unit]

\* downloader.py 104-106: an item's task enters the per-item procedure.
StartItem(i) ==
    /\ pc = "download"
    /\ i \in CurrentUnit
    /\ st[i] = "pending"
    /\ st' = [st EXCEPT ![i] = "active"]
    /\ UNCHANGED <<dlVars, regVars, syncVars, mode, writeThrough, feed, disk, mem, files, pc, offset, eot, fot,
                   is_last, got_offset, page, unit, outcome, runs, hist>>

\* downloader.py 43-55: the final file exists, nothing is transferred.
ItemPassed(i) ==
    /\ pc = "download"
    /\ st[i] = "active"
    /\ i \in files
    /\ st' = [st EXCEPT ![i] = "done"]
    /\ outcome' = [outcome EXCEPT ![i] = "passed"]
    /\ UNCHANGED <<dlVars, regVars, syncVars, mode, writeThrough, feed, disk, mem, files, pc, offset, eot, fot,
                   is_last, got_offset, page, unit, runs, hist>>

\* downloader.py 57-70, 107-108: the transfer succeeds and the file is renamed.
ItemDownloaded(i) ==
    /\ pc = "download"
    /\ st[i] = "active"
    /\ i \notin files
    /\ files' = files \cup {i}
    /\ st' = [st EXCEPT ![i] = "done"]
    /\ outcome' = [outcome EXCEPT ![i] = "downloaded"]
    /\ hist' = [hist EXCEPT !.downloaded = @ \cup {i}]
    /\ UNCHANGED <<dlVars, regVars, syncVars, mode, writeThrough, feed, disk, mem, pc, offset, eot, fot,
                   is_last, got_offset, page, unit, runs>>

\* downloader.py 59-60, 112-114: the transfer fails, the item's outcome is error.
ItemError(i) ==
    /\ pc = "download"
    /\ st[i] = "active"
    /\ i \notin files
    /\ hist.errors < MaxErrors
    /\ st' = [st EXCEPT ![i] = "done"]
    /\ outcome' = [outcome EXCEPT ![i] = "error"]
    /\ hist' = [hist EXCEPT !.errors = @ + 1]
    /\ UNCHANGED <<dlVars, regVars, syncVars, mode, writeThrough, feed, disk, mem, files, pc, offset, eot, fot,
                   is_last, got_offset, page, unit, runs>>

\* launchers.py 78 / 247 and the loop test: the next unit, page, or the end.
Advance ==
    IF unit < Len(UnitsOf(mode, page))
    THEN /\ unit' = unit + 1
         /\ pc' = "download"
         /\ UNCHANGED offset
    ELSE /\ unit' = unit
         /\ offset' = got_offset
         /\ pc' = IF is_last THEN "finish" ELSE "fetch"

\* launchers.py 72-75 / 242-244: the unit's downloads have all returned.
GatherDone ==
    /\ pc = "download"
    /\ GatherReturned(st, CurrentUnit)
    /\ IF WritesRuntime(offset)
       THEN /\ SetField("runtime", RuntimeToWrite(offset, got_offset))
            /\ pc' = "save"
            /\ UNCHANGED <<unit, offset>>
       ELSE /\ Advance
            /\ UNCHANGED <<disk, mem>>
    /\ hist' = [hist EXCEPT !.finished =
                   IF unit = Len(UnitsOf(mode, page)) THEN @ \cup {page} ELSE @]
    /\ UNCHANGED <<dlVars, regVars, syncVars, mode, writeThrough, feed, files, eot, fot, is_last, got_offset,
                   page, st, outcome, runs>>

\* launchers.py 76-78 / 245-247: the checkpoint is saved after the unit.
SavePage ==
    /\ pc = "save"
    /\ disk' = mem
    /\ Advance
    /\ UNCHANGED <<dlVars, regVars, syncVars, mode, writeThrough, feed, mem, files, eot, fot, is_last,
                   got_offset, page, st, outcome, runs, hist>>

\* launchers.py 80-81 / 252-253: the runtime offset is cleared.
ClearRuntime ==
    /\ pc = "finish"
    /\ SetField("runtime", RuntimeAtEnd(mem.runtime))
    /\ pc' = "raise"
    /\ UNCHANGED <<dlVars, regVars, syncVars, mode, writeThrough, feed, files, offset, eot, fot, is_last,
                   got_offset, page, unit, st, outcome, runs, hist>>

\* launchers.py 82-87 / 255-260: the completed offset is raised to fot.
RaiseCompleted ==
    /\ pc = "raise"
    /\ SetField("completed", RaisedCompleted(mem.completed, fot))
    /\ pc' = "finalsave"
    /\ UNCHANGED <<dlVars, regVars, syncVars, mode, writeThrough, feed, files, offset, eot, fot, is_last,
                   got_offset, page, unit, st, outcome, runs, hist>>

\* launchers.py 88 / 261: the final save; the stream has ended gracefully.
FinalSave ==
    /\ pc = "finalsave"
    /\ disk' = mem
    /\ pc' = "done"
    /\ hist' = [hist EXCEPT !.graceful = @ + 1, !.lastDone = mem.completed]
    /\ UNCHANGED <<dlVars, regVars, syncVars, mode, writeThrough, feed, mem, files, offset, eot, fot, is_last,
                   got_offset, page, unit, st, outcome, runs>>

\* Mutant: the failure of a save is swallowed and the stream goes on.
SaveFailureAborts_Never(at) == FALSE

\* launchers.py 76 / 88 / 245 / 261: "await sync_data.save()" stands in no try
\* block, so what save() raises leaves the page loop and the stream, up to
\* main.py 298-302.
SaveFailureAborts(at) == TRUE

\* core.sync_data.SyncData.save cannot write the checkpoint file and raises:
\* the file stays as it was.
SaveFails ==
    /\ pc \in {"save", "finalsave"}
    /\ hist' = [hist EXCEPT !.saveFailed = TRUE]
    /\ IF SaveFailureAborts(pc)
       THEN /\ pc' = "failed"
            /\ UNCHANGED <<unit, offset>>
       ELSE IF pc = "save" THEN Advance
            ELSE pc' = "done" /\ UNCHANGED <<unit, offset>>
    /\ UNCHANGED <<dlVars, regVars, syncVars, mode, writeThrough, feed, disk, mem, files, eot, fot,
                   is_last, got_offset, page, st, outcome, runs>>

Reboot ==
    /\ pc' = "boot"
    /\ runs' = runs + 1
    /\ mem' = disk
    /\ offset' = NoToken /\ eot' = None /\ fot' = None /\ is_last' = FALSE
    /\ got_offset' = NoToken
    /\ page' = 0 /\ unit' = 0
    /\ st' = NoStatus /\ outcome' = NoStatus
    /\ UNCHANGED <<dlVars, regVars, syncVars, mode, writeThrough, feed, disk, files>>

\* The process is killed, or an exception leaves the page loop (main.py 298-306):
\* what is on disk stays, everything else is lost.
Crash ==
    /\ pc \notin {"boot", "done"}
    /\ runs < MaxRuns
    /\ Reboot
    /\ hist' = [hist EXCEPT !.crashes = @ + 1, !.afterGraceful = FALSE]

\* The program is run again after a run that ended gracefully.
NextRun ==
    /\ pc = "done"
    /\ runs < MaxRuns
    /\ Reboot
    /\ hist' = [hist EXCEPT !.afterGraceful = TRUE]

(***************************************************************************)
(* The Download Manager: core/downloader.py over a file system of names    *)
(* and inodes.  A name is the final path of an item or that path + ".part".*)
(***************************************************************************)
Chunks == 2
ChunkLen == 2
MaxExpected == 5
MaxWidth == 2
MaxInvocations == 2
MaxInodes == 4

\* downloader.py 49: actual_len < expected_len * 0.8, as 5 * actual < 4 * expected.
ThresholdNum == 4
ThresholdDen == 5

DlItems == {1, 2}
Paths == {1, 2}
Kinds == {"p", "v"}
Final(q) == <<q, "final">>
\* downloader.py 35: part_path.
PartOf(q) == <<q, "part">>
Names == {Final(q) : q \in Paths} \cup {PartOf(q) : q \in Paths}
Full == 1..Chunks
Prefixes == {1..n : n \in 0..Chunks}

\* Item 1 is a video, with metadata or with none.  Item 2 is a photo at
\* another path whose record holds metadata too, or the same remote item a
\* second time (the same path).
Pools ==
    {[i \in DlItems |->
        IF i = 1 \/ same
        THEN [path |-> 1, kind |-> "v", playlist |-> pl, meta |-> m]
        ELSE [path |-> 2, kind |-> "p", playlist |-> FALSE, meta |-> TRUE]]
     : pl \in BOOLEAN, same \in BOOLEAN, m \in BOOLEAN}

\* os.path.getsize: the end of the last chunk the file holds.
SizeOf(data) ==
    IF data = {} THEN 0
    ELSE ChunkLen * (CHOOSE n \in data : \A m \in data : m <= n)

Referenced(d, f) == ({d[n] : n \in Names} \cup {f[i] : i \in DlItems}) \ {0}

\* An inode no name and no open file refers to is gone.
Collect(d, f, ino) ==
    [k \in 1..MaxInodes |-> IF k \in Referenced(d, f) THEN ino[k] ELSE {}]

FreeInodes(d, f) == (1..MaxInodes) \ Referenced(d, f)
NewInode(d, f) == CHOOSE k \in FreeInodes(d, f) : \A j \in FreeInodes(d, f) : k <= j

\* asyncio.Semaphore: the tasks inside "async with self._semaphore".
Inside == {i \in DlItems : tpc[i] \notin {"wait", "done"}}

\* downloader.py 45: the URL is a streaming playlist.
IsPlaylist(item) == item.playlist

\* Mutant: the metadata of an item of any kind is kept.
MetaFor_AnyKind(item) == item.meta

\* downloader.py 79-99: only a video keeps its metadata.
MetaFor(item) == IF item.kind = "v" THEN item.meta ELSE FALSE

\* Mutant: a file of exactly 0.8 x the expected length counts as incomplete.
TooSmall_Inclusive(actual_len, expected_len) ==
    ThresholdDen * actual_len <= ThresholdNum * expected_len

\* downloader.py 49: actual_len < expected_len * 0.8.
TooSmall(actual_len, expected_len) ==
    ThresholdDen * actual_len < ThresholdNum * expected_len

\* downloader.py 44-55: the status of an item whose final file exists.
ExistingStatus(item, expected_len, actual_len) ==
    IF ~IsPlaylist(item) /\ Truthy(expected_len) /\ TooSmall(actual_len, expected_len)
    THEN "incomplete" ELSE "passed"

\* downloader.py 67: whether the metadata is written after the rename.
WritesMeta(item) == save_meta /\ MetaFor(item)

\* Mutant: the semaphore lets one task more in than its width.
SlotFree_OneMore(inside, w) == inside <= w

\* downloader.py 27, 104: asyncio.Semaphore(max_parallel_downloads) lets a task
\* in while fewer than its width are inside.
SlotFree(inside, w) == inside < w

\* Mutant: the except branch returns nothing.
ReturnedStatus_Nothing(status) == IF status = "raised" THEN "none" ELSE status

\* downloader.py 105-114: what _get_file_and_raise_stat returns: the status of
\* the procedure, "error" when the procedure raised.
ReturnedStatus(status) == IF status = "raised" THEN "error" ELSE status

\* Mutant: every status that is not downloaded counts as passed.
CounterOf_NoError(status) == IF status = "downloaded" THEN "downloaded" ELSE "passed"

\* downloader.py 107-113: the counter of the kind that is incremented.
CounterOf(status) ==
    IF status = "downloaded" THEN "downloaded"
    ELSE IF status = "raised" THEN "error" ELSE "passed"

Statuses == {"downloaded", "passed", "incomplete", "error"}

\* The items of one kind, in the order of the pool.
ItemsOfKind(pl, k) == {i \in DlItems : pl[i].kind = k}
InOrder(S) ==
    CHOOSE q \in [1..Cardinality(S) -> S] : \A a, b \in 1..Cardinality(S) : a < b => q[a] < q[b]

\* downloader.py 139 / 153: [str(p) for p, r in zip(paths, results) if r == "incomplete"].
RECURSIVE IncompletePaths(_, _)
IncompletePaths(paths, results) ==
    IF paths = << >> \/ results = << >> THEN << >>
    ELSE (IF Head(results) = "incomplete" THEN <<Head(paths)>> ELSE << >>)
         \o IncompletePaths(Tail(paths), Tail(results))

NotReturned == [results |-> <<"pending">>, incomplete_paths |-> << >>]

NoDhist ==
    [hadPart |-> FALSE, unlinked |-> FALSE, existed |-> FALSE, expected |-> None,
     actual |-> None, opened |-> FALSE, renamed |-> FALSE, wroteMeta |-> FALSE,
     raised |-> FALSE]

NoStats == [k \in Kinds |-> [passed |-> 0, downloaded |-> 0, error |-> 0]]

NoProcessed == [k \in Kinds |-> [s \in Statuses |-> 0]]

DlInit ==
    /\ pool \in Pools
    /\ width \in 1..MaxWidth
    /\ save_meta \in BOOLEAN
    /\ \E fin \in {{0}} \cup Prefixes, part \in {{0}, {1}} :
        LET hasFin == fin # {0}
            hasPart == part # {0}
            finIno == IF hasFin THEN 1 ELSE 0
            partIno == IF hasPart THEN (IF hasFin THEN 2 ELSE 1) ELSE 0
        IN  /\ fsdir = [n \in Names |->
                          IF n = Final(1) THEN finIno
                          ELSE IF n = PartOf(1) THEN partIno ELSE 0]
            /\ inodes = [k \in 1..MaxInodes |->
                          IF k = finIno THEN fin
                          ELSE IF k = partIno THEN part ELSE {}]
    /\ tpc = [i \in DlItems |-> "wait"]
    /\ fd = [i \in DlItems |-> 0]
    /\ pos = [i \in DlItems |-> 0]
    /\ result = [i \in DlItems |-> "none"]
    /\ stats = NoStats
    /\ incomplete_files = {}
    /\ invocations = 1
    /\ returned = [k \in Kinds |-> NotReturned]
    /\ processed = NoProcessed
    /\ dhist = [items |-> [i \in DlItems |-> NoDhist],
                legacy |-> {q \in Paths : fsdir[Final(q)] # 0}]

\* downloader.py 107-114: the counter of the outcome, the semaphore released.
Finish(i, status) ==
    LET k == pool[i].kind
    IN  /\ result' = [result EXCEPT ![i] = ReturnedStatus(status)]
        /\ stats' = [stats EXCEPT ![k][CounterOf(status)] = @ + 1]
        /\ processed' = [processed EXCEPT ![k][ReturnedStatus(status)] = @ + 1]
        /\ tpc' = [tpc EXCEPT ![i] = "done"]

\* downloader.py 104, 35-46, 54-57: the task takes a slot, deletes a leftover
\* .part file (the deletion may fail and is then only logged) and looks for the
\* final file, all before its first await.
Enter(i) ==
    /\ tpc[i] = "wait"
    /\ SlotFree(Cardinality(Inside), width)
    /\ LET q == pool[i].path
           hadPart == fsdir[PartOf(q)] # 0
       IN \E unlinkOk \in BOOLEAN :
           LET d == IF hadPart /\ unlinkOk THEN [fsdir EXCEPT ![PartOf(q)] = 0]
                    ELSE fsdir
               exists == d[Final(q)] # 0
           IN  /\ hadPart \/ unlinkOk
               /\ fsdir' = d
               /\ inodes' = Collect(d, fd, inodes)
               /\ dhist' = [dhist EXCEPT ![ "items" ][i] =
                              [NoDhist EXCEPT !.hadPart = hadPart,
                                              !.unlinked = hadPart /\ unlinkOk,
                                              !.existed = exists]]
               /\ IF exists /\ IsPlaylist(pool[i])
                  THEN /\ Finish(i, ExistingStatus(pool[i], None, None))
                       /\ UNCHANGED incomplete_files
                  ELSE /\ tpc' = [tpc EXCEPT ![i] = IF exists THEN "probe" ELSE "transfer"]
                       /\ UNCHANGED <<result, stats, processed, incomplete_files>>
    /\ UNCHANGED <<streamVars, regVars, syncVars, returned, pool, width, save_meta, fd, pos, invocations>>

\* downloader.py 46-55: get_content_length answers and the file is classified.
Probe(i) ==
    /\ tpc[i] = "probe"
    /\ fsdir[Final(pool[i].path)] # 0
    /\ \E expected_len \in {None} \cup (0..MaxExpected) :
        LET actual_len == SizeOf(inodes[fsdir[Final(pool[i].path)]])
            status == ExistingStatus(pool[i], expected_len, actual_len)
        IN  /\ Finish(i, status)
            /\ incomplete_files' = IF status = "incomplete"
                                   THEN incomplete_files \cup {pool[i].path}
                                   ELSE incomplete_files
            /\ dhist' = [dhist EXCEPT ![ "items" ][i].expected = expected_len,
                                      ![ "items" ][i].actual = actual_len]
    /\ UNCHANGED <<streamVars, regVars, syncVars, returned, pool, width, save_meta, fsdir, inodes, fd, pos,
                   invocations>>

\* boosty.api.download_file opens the .part file for writing: a new file, or
\* the one of that name emptied.
OpenPart(i) ==
    /\ tpc[i] = "transfer"
    /\ LET q == pool[i].path
           ino == IF fsdir[PartOf(q)] # 0 THEN fsdir[PartOf(q)] ELSE NewInode(fsdir, fd)
       IN  /\ fsdir[PartOf(q)] # 0 \/ FreeInodes(fsdir, fd) # {}
           /\ fsdir' = [fsdir EXCEPT ![PartOf(q)] = ino]
           /\ inodes' = [inodes EXCEPT ![ino] = {}]
           /\ fd' = [fd EXCEPT ![i] = ino]
           /\ dhist' = [dhist EXCEPT ![ "items" ][i].opened = TRUE]
    /\ pos' = [pos EXCEPT ![i] = 0]
    /\ tpc' = [tpc EXCEPT ![i] = "write"]
    /\ UNCHANGED <<streamVars, regVars, syncVars, returned, pool, width, save_meta, result, stats,
                   processed, incomplete_files, invocations>>

\* download_file writes the next chunk; after the last one it returns True.
WriteChunk(i) ==
    /\ tpc[i] = "write"
    /\ pos[i] < Chunks
    /\ pos' = [pos EXCEPT ![i] = @ + 1]
    /\ IF pos[i] + 1 = Chunks
       THEN /\ tpc' = [tpc EXCEPT ![i] = "rename"]
            /\ fd' = [fd EXCEPT ![i] = 0]
       ELSE UNCHANGED <<tpc, fd>>
    /\ inodes' = Collect(fsdir, fd', [inodes EXCEPT ![fd[i]] = @ \cup {pos[i] + 1}])
    /\ UNCHANGED <<streamVars, regVars, syncVars, returned, pool, width, save_meta, fsdir, result, stats,
                   processed, incomplete_files, invocations, dhist>>

\* downloader.py 58-60, 112-114: download_file fails; the item's outcome is error
\* and what was written stays in the .part file.
TransferFails(i) ==
    /\ tpc[i] \in {"transfer", "write"}
    /\ Finish(i, "raised")
    /\ fd' = [fd EXCEPT ![i] = 0]
    /\ inodes' = Collect(fsdir, fd', inodes)
    /\ dhist' = [dhist EXCEPT ![ "items" ][i].raised = TRUE]
    /\ UNCHANGED <<streamVars, regVars, syncVars, returned, pool, width, save_meta, fsdir, pos,
                   incomplete_files, invocations>>

\* downloader.py 61-66, 70: os.replace(part_path, path) succeeds.
Rename(i) ==
    /\ tpc[i] = "rename"
    /\ LET q == pool[i].path
           d == [fsdir EXCEPT ![Final(q)] = fsdir[PartOf(q)], ![PartOf(q)] = 0]
       IN  /\ fsdir[PartOf(q)] # 0
           /\ fsdir' = d
           /\ inodes' = Collect(d, fd, inodes)
           /\ dhist' = [dhist EXCEPT ![ "items" ][i].renamed = TRUE,
                                     !.legacy = @ \ {q}]
    /\ IF WritesMeta(pool[i])
       THEN /\ tpc' = [tpc EXCEPT ![i] = "meta"]
            /\ UNCHANGED <<result, stats, processed>>
       ELSE Finish(i, "downloaded")
    /\ UNCHANGED <<streamVars, regVars, syncVars, returned, pool, width, save_meta, fd, pos, incomplete_files,
                   invocations>>

\* downloader.py 62-66, 112-114: os.replace raises (no .part file of that name
\* any more, or the system refuses); the item's outcome is error.
RenameFails(i) ==
    /\ tpc[i] = "rename"
    /\ Finish(i, "raised")
    /\ dhist' = [dhist EXCEPT ![ "items" ][i].raised = TRUE]
    /\ UNCHANGED <<streamVars, regVars, syncVars, returned, pool, width, save_meta, fsdir, inodes, fd, pos,
                   incomplete_files, invocations>>

\* downloader.py 67-70: write_video_metadata returns; the status is downloaded.
WriteMeta(i) ==
    /\ tpc[i] = "meta"
    /\ Finish(i, "downloaded")
    /\ dhist' = [dhist EXCEPT ![ "items" ][i].wroteMeta = TRUE]
    /\ UNCHANGED <<streamVars, regVars, syncVars, returned, pool, width, save_meta, fsdir, inodes, fd, pos,
                   incomplete_files, invocations>>

\* downloader.py 69, 112-114: write_video_metadata raises; the outcome is error.
WriteMetaFails(i) ==
    /\ tpc[i] = "meta"
    /\ Finish(i, "raised")
    /\ dhist' = [dhist EXCEPT ![ "items" ][i].raised = TRUE]
    /\ UNCHANGED <<streamVars, regVars, syncVars, returned, pool, width, save_meta, fsdir, inodes, fd, pos,
                   incomplete_files, invocations>>

\* downloader.py 138-140 / 152-154: the kind's gather returns when every task of
\* the kind has; the download returns the statuses in the order of the pool and
\* the paths of the incomplete ones.
Gather(k) ==
    /\ returned[k] = NotReturned
    /\ GatherReturned(tpc, ItemsOfKind(pool, k))
    /\ LET order == InOrder(ItemsOfKind(pool, k))
           paths == [j \in DOMAIN order |-> pool[order[j]].path]
           results == [j \in DOMAIN order |-> result[order[j]]]
       IN  returned' = [returned EXCEPT ![k] =
                          [results |-> results,
                           incomplete_paths |-> IncompletePaths(paths, results)]]
    /\ UNCHANGED <<streamVars, regVars, syncVars, pool, width, save_meta, fsdir, inodes, tpc, fd, pos,
                   result, stats, processed, incomplete_files, invocations, dhist>>

\* launchers.py 65-72 / 213-242: every download of the Downloader has returned
\* and the same process invokes the next Downloader (the next page or post) on
\* the same pool; stat_tracker keeps counting.
NextInvocation ==
    /\ invocations < MaxInvocations
    /\ \A k \in Kinds : returned[k] # NotReturned
    /\ invocations' = invocations + 1
    /\ tpc' = [i \in DlItems |-> "wait"]
    /\ pos' = [i \in DlItems |-> 0]
    /\ result' = [i \in DlItems |-> "none"]
    /\ returned' = [k \in Kinds |-> NotReturned]
    /\ dhist' = [dhist EXCEPT !.items = [i \in DlItems |-> NoDhist]]
    /\ UNCHANGED <<streamVars, regVars, syncVars, pool, width, save_meta, fsdir, inodes, fd, stats,
                   processed, incomplete_files>>

\* The process ends, killed at any point or after every task returned, and the
\* Downloader is invoked on the same pool by the next process: the files stay.
DlRestart ==
    /\ invocations < MaxInvocations
    /\ invocations' = invocations + 1
    /\ tpc' = [i \in DlItems |-> "wait"]
    /\ fd' = [i \in DlItems |-> 0]
    /\ pos' = [i \in DlItems |-> 0]
    /\ result' = [i \in DlItems |-> "none"]
    /\ stats' = NoStats
    /\ processed' = NoProcessed
    /\ returned' = [k \in Kinds |-> NotReturned]
    /\ incomplete_files' = {}
    /\ inodes' = Collect(fsdir, fd', inodes)
    /\ dhist' = [dhist EXCEPT !.items = [i \in DlItems |-> NoDhist]]
    /\ UNCHANGED <<streamVars, regVars, syncVars, pool, width, save_meta, fsdir>>

(***************************************************************************)
(* The Path Registry: launchers.py 191-203 / 310-323 over the rows of the   *)
(* creator's post.db.  A name is a sequence of characters; "?" stands for   *)
(* the characters a directory name may not hold.                            *)
(***************************************************************************)
MaxResolves == 4

Creators == {"A", "B"}
PostIds == {"1", "2", "3"}
Titles == { << >>, <<"a">>, <<"?", "a">>, <<"a", "_", "2">>, <<"2">>, <<"?">> }

NoRow == [post_id |-> "", post_path |-> <<"/">>]

\* PostDBClient.get_post: the first row of the post id, if any.
get_post(rows, id) ==
    IF \E n \in 1..Len(rows) : rows[n].post_id = id
    THEN rows[CHOOSE n \in 1..Len(rows) :
                 /\ rows[n].post_id = id
                 /\ \A m \in 1..(n - 1) : rows[m].post_id # id]
    ELSE NoRow

\* PostDBClient.get_posts_by_path: the rows with that path.
get_posts_by_path(rows, path) == SelectSeq(rows, LAMBDA r : r.post_path = path)

\* PostDBClient.create_post: a new row.
create_post(rows, path, id) == Append(rows, [post_id |-> id, post_path |-> path])

\* core.post_mapping.utils.validate_windows_dir_name: the title without the
\* characters a directory name may not hold.
validate_windows_dir_name(title) == SelectSeq(title, LAMBDA ch : ch # "?")

\* launchers.py 316-319 / 196-199.
HumanFilename(title, id) ==
    IF Len(title) # 0 THEN validate_windows_dir_name(title) ELSE <<id>>

\* Mutant: a taken name is used as it is.
Disambiguate_Never(human_filename, id, taken) == human_filename

\* launchers.py 320-322 / 200-202: the post id is appended to a taken name.
Disambiguate(human_filename, id, taken) ==
    IF taken THEN human_filename \o <<"_", id>> ELSE human_filename

\* launchers.py 316-322 / 196-202: the path of a post without a row.
NewPostPath(rows, title, id) ==
    LET human_filename == HumanFilename(title, id)
    IN  Disambiguate(human_filename, id, Len(get_posts_by_path(rows, human_filename)) # 0)

\* Mutant: the path is computed from the title again although a row exists.
ResolvedPath_Fresh(existing, fresh) == fresh

\* launchers.py 312-322 / 192-202: the stored path when a row exists.
ResolvedPath(existing, fresh) ==
    IF existing # NoRow THEN existing.post_path ELSE fresh


\* launchers.py 313-323 / 193-203: a row is created only when none exists.
CreatesRow(existing) == existing = NoRow

NoRegistry == [c \in Creators |-> << >>]

NoRhist == [n |-> 0, creator |-> "", id |-> "", title |-> << >>, path |-> <<"/">>,
            before |-> << >>]

RegInit ==
    /\ registry = NoRegistry
    /\ rhist = NoRhist

\* launchers.py 191-203 / 311-323: one post is resolved, the whole sequence
\* without another task in between.
ResolvePost(c, id, title) ==
    /\ rhist.n < MaxResolves
    /\ LET rows == registry[c]
           existing == get_post(rows, id)
           post_path == ResolvedPath(existing, NewPostPath(rows, title, id))
       IN  /\ registry' = [registry EXCEPT ![c] =
                             IF CreatesRow(existing)
                             THEN create_post(rows, post_path, id) ELSE rows]
           /\ rhist' = [n |-> rhist.n + 1, creator |-> c, id |-> id, title |-> title,
                        path |-> post_path, before |-> rows]
    /\ UNCHANGED <<streamVars, dlVars, syncVars>>

RegNext == \E c \in Creators, id \in PostIds, title \in Titles : ResolvePost(c, id, title)


\* ---------------------------------------------------------------------------
\* The Sync Orchestrator: concurrent syncs of one process.
\* ---------------------------------------------------------------------------

MaxTasks == 3     \* links in the queue / streams of a media sync
MaxItems == 2     \* litems of one Downloader
MaxRounds == 2    \* Downloaders of one stream: pages (media), posts (posts)

Tasks == 1..MaxTasks
SyncItems == 1..MaxItems
IdSeq == <<"1", "2", "3">>
Outcomes == {"downloaded", "passed", "incomplete", "error"}
FetchStatuses == {"ok", "not_found", "error"}

\* The title the API returns for every post of the model: the same one, so
\* that two posts of one creator compete for one directory name.
PostTitle == <<"a">>

\* The link queues of the model: the last link is of creator B, the others of
\* creator A; they name one post, or different posts.
LinkQueue(same) ==
    [t \in Tasks |->
        [creator |-> IF t < MaxTasks THEN "A" ELSE "B",
         post_id |-> IF same THEN "1" ELSE IdSeq[((t - 1) % 3) + 1]]]

\* Mutant: the limiter lets one more sync in.
post_parallel_OneMore(mdp) == Max(1, mdp) + 1
\* main.py 121: post_parallel = max(1, int(conf.max_download_parallel)).
post_parallel(mdp) == Max(1, mdp)

\* Mutant: a Downloader has one slot more than configured.
max_parallel_downloads_OneMore(mdp) == mdp + 1
\* launchers.py 68 / 211 / 332, downloader.py 27: the width of a Downloader's
\* semaphore is conf.max_download_parallel.
max_parallel_downloads(mdp) == mdp

\* Mutant: the lock is entered whoever holds it.
LockFree_Always(holder) == TRUE
\* asyncio.Lock: it is entered when nobody holds it.
LockFree(holder) == holder = 0

\* Mutant: a sync goes on after the store could not be opened.
StoreRefused_Never(ok) == FALSE
\* launchers.py 161 / 281: not ensure_post_database_exists(post_db_path).
StoreRefused(ok) == ~ok

\* The syncs inside "async with post_semaphore" (main.py 125).
RunningSyncs == {t \in Tasks : lpc[t] \notin {"off", "queued", "ended"}}

\* The creator and post a task is working on: its link, or, in a posts
\* stream, the next post of the page.
CurCreator(t) == IF run_mode = "links" THEN links[t].creator ELSE links[1].creator
CurPostId(t) ==
    IF run_mode = "links" THEN links[t].post_id ELSE IdSeq[(rounds[t] % 3) + 1]

\* The transfers of a task's Downloader that hold a slot of its semaphore.
InsideOf(t) == {i \in SyncItems : litems[t][i] = "in"}
AllItemsDone(t) == \A i \in SyncItems : litems[t][i] \in Outcomes

\* launchers.py 382-403: what fetch_and_save_lonely_post returns for the
\* statuses of its post's litems.
LonelyStatus(results) ==
    LET has_downloaded == \E i \in SyncItems : results[i] = "downloaded"
        has_error == \E i \in SyncItems : results[i] = "error"
    IN  IF has_error THEN "error"
        ELSE IF has_downloaded THEN "downloaded"
        ELSE "skipped"

NoItems == [i \in SyncItems |-> "wait"]
NoShist == [fetched |-> {}, dirs |-> {}, created |-> {}, started |-> {}, refused |-> {},
            unlocked |-> FALSE, missing |-> {}, raised |-> {}]

\* main.py 96-100, 102-118: the lists of main are empty and the checkpoint
\* stores of the creators in sync_data_errors could not be prepared.
NoBatch(errors, at) ==
    [pc |-> at, sync_data_errors |-> errors,
     succeeded_links |-> {}, skipped_links |-> {}, failed_links |-> {},
     incomplete_links |-> {}, incomplete_files_all |-> {},
     asked |-> FALSE, consent |-> FALSE, deleted |-> {}, rerun |-> {}]

SyncInit ==
    /\ run_mode \in {"links", "media", "posts"}
    /\ max_download_parallel \in 0..MaxWidth
    /\ enable_post_masquerade \in BOOLEAN
    /\ store_ok \in [Creators -> BOOLEAN]
    /\ links \in {LinkQueue(same) : same \in BOOLEAN}
    /\ run_mode = "media" =>
          /\ ~enable_post_masquerade
          /\ store_ok = [c \in Creators |-> TRUE]
          /\ links = LinkQueue(FALSE)
    /\ run_mode = "posts" => links = LinkQueue(FALSE) /\ store_ok["B"]
    /\ ~enable_post_masquerade => store_ok = [c \in Creators |-> TRUE]
    /\ lpc = [t \in Tasks |->
                IF run_mode = "links" THEN "queued"
                ELSE IF run_mode = "media" THEN "fetch"
                ELSE IF t = 1 THEN "begin" ELSE "off"]
    /\ post_db_lock = [c \in Creators |-> 0]
    /\ lpath = [t \in Tasks |-> <<"/">>]
    /\ litems = [t \in Tasks |-> NoItems]
    /\ lstatus = [t \in Tasks |-> "none"]
    /\ rounds = [t \in Tasks |-> 0]
    /\ shist = NoShist
    /\ \E errors \in {{}, {"A"}} :
          /\ run_mode # "links" => errors = {}
          /\ batch = NoBatch(errors, IF run_mode = "links" THEN "gather" ELSE "off")
    /\ post_db_client = [t \in Tasks |-> "none"]

\* main.py 125: a link enters the limiter; the links were started in queue
\* order and the semaphore wakes its waiters in that order.
AcquireSlot(t) ==
    /\ run_mode = "links"
    /\ lpc[t] = "queued"
    /\ \A u \in 1..(t - 1) : lpc[u] # "queued"
    /\ Cardinality(RunningSyncs) < post_parallel(max_download_parallel)
    /\ lpc' = [lpc EXCEPT ![t] = "begin"]
    /\ UNCHANGED <<streamVars, dlVars, regVars, run_mode, post_db_client, batch, max_download_parallel,
                   enable_post_masquerade, store_ok, links, post_db_lock, lpath,
                   litems, lstatus, rounds, shist>>

\* launchers.py 155-159 / 273-279: the sync begins; with masquerade it goes
\* for the store, a single-post sync through the lock of the store's file.
Begin(t) ==
    /\ lpc[t] = "begin"
    /\ IF run_mode = "links" /\ CurCreator(t) \in batch.sync_data_errors
       THEN \* main.py 126-127: return raw_link, "error", []
            /\ lpc' = [lpc EXCEPT ![t] = "ended"]
            /\ lstatus' = [lstatus EXCEPT ![t] = "error"]
       ELSE /\ lpc' = [lpc EXCEPT ![t] =
                        IF ~enable_post_masquerade THEN "fetch"
                        ELSE IF run_mode = "links" THEN "ensure_wait" ELSE "ensure"]
            /\ UNCHANGED lstatus
    /\ UNCHANGED <<streamVars, dlVars, regVars, run_mode, post_db_client, batch, max_download_parallel,
                   enable_post_masquerade, store_ok, links, post_db_lock, lpath,
                   litems, rounds, shist>>

\* launchers.py 280: async with post_db_lock, around ensure_post_database_exists.
LockForEnsure(t) ==
    /\ lpc[t] = "ensure_wait"
    /\ LockFree(post_db_lock[CurCreator(t)])
    /\ post_db_lock' = [post_db_lock EXCEPT ![CurCreator(t)] = t]
    /\ lpc' = [lpc EXCEPT ![t] = "ensure"]
    /\ UNCHANGED <<streamVars, dlVars, regVars, run_mode, post_db_client, batch, max_download_parallel,
                   enable_post_masquerade, store_ok, links, lpath,
                   litems, lstatus, rounds, shist>>

\* launchers.py 161-166 / 281-286: the store is created or opened; when it
\* cannot be, the sync returns ("error" from a single-post sync, which
\* leaves the limiter too: main.py 125-148).
Ensure(t) ==
    /\ lpc[t] = "ensure"
    /\ LET refused == StoreRefused(store_ok[CurCreator(t)])
       IN  /\ lpc' = [lpc EXCEPT ![t] = IF refused THEN "ended" ELSE "fetch"]
           /\ lstatus' = [lstatus EXCEPT ![t] =
                           IF refused /\ run_mode = "links" THEN "error" ELSE @]
           /\ shist' = [shist EXCEPT !.refused =
                           IF ~store_ok[CurCreator(t)] THEN @ \cup {t} ELSE @]
    /\ post_db_lock' = [post_db_lock EXCEPT ![CurCreator(t)] = IF @ = t THEN 0 ELSE @]
    \* launchers.py 166 / 286: post_db_client = PostDBClient(post_db_path)
    /\ post_db_client' = [post_db_client EXCEPT ![t] =
                            IF StoreRefused(store_ok[CurCreator(t)]) THEN @ ELSE "open"]
    /\ UNCHANGED <<streamVars, dlVars, regVars, run_mode, batch, max_download_parallel,
                   enable_post_masquerade, store_ok, links, lpath,
                   litems, rounds>>

\* The next step of a sync that has a post: the registry, or the directory.
AfterFetch ==
    IF ~enable_post_masquerade THEN "mkdir"
    ELSE IF run_mode = "links" THEN "lock_wait" ELSE "by_id"

\* launchers.py 288-301: get_post_by_id; a status other than "ok", or no post
\* in the pool, ends the sync with that status.
FetchReturn_Error(fetch_status) == "error"
\* launchers.py 301: return fetch_status or "error", []
FetchReturn(fetch_status) == IF fetch_status = "" THEN "error" ELSE fetch_status

\* launchers.py 289-301: get_post_by_id of a single-post sync returns.
FetchPost(t, fetch_status, loaded) ==
    /\ run_mode = "links"
    /\ lpc[t] = "fetch"
    /\ fetch_status = "ok" \/ ~loaded
    /\ shist' = [shist EXCEPT !.fetched = @ \cup {t},
                              !.missing = IF fetch_status = "not_found"
                                          THEN @ \cup {t} ELSE @]
    /\ IF fetch_status = "ok" /\ loaded
       THEN /\ lpc' = [lpc EXCEPT ![t] = AfterFetch]
            /\ lpath' = [lpath EXCEPT ![t] = <<CurPostId(t)>>]
            /\ UNCHANGED lstatus
       ELSE /\ lpc' = [lpc EXCEPT ![t] = "ended"]
            /\ lstatus' = [lstatus EXCEPT ![t] = FetchReturn(fetch_status)]
            /\ UNCHANGED lpath
    /\ UNCHANGED <<streamVars, dlVars, regVars, run_mode, post_db_client, batch, max_download_parallel,
                   enable_post_masquerade, store_ok, links, post_db_lock,
                   litems, rounds>>

\* main.py 141-143: the single-post sync raises (get_post_by_id, launchers.py
\* 289) and process_link returns raw_link, "error", [].
FetchRaises(t) ==
    /\ run_mode = "links"
    /\ lpc[t] = "fetch"
    /\ shist' = [shist EXCEPT !.raised = @ \cup {t}]
    /\ lpc' = [lpc EXCEPT ![t] = "ended"]
    /\ lstatus' = [lstatus EXCEPT ![t] = "error"]
    /\ UNCHANGED <<streamVars, dlVars, regVars, run_mode, post_db_client, batch, max_download_parallel,
                   enable_post_masquerade, store_ok, links, post_db_lock, lpath,
                   litems, rounds>>

\* launchers.py 176-189: get_all_posts; the page holds the posts the stream
\* goes through one after the other.
FetchPosts(t) ==
    /\ run_mode = "posts"
    /\ lpc[t] = "fetch"
    /\ shist' = [shist EXCEPT !.fetched = @ \cup {t}]
    /\ lpc' = [lpc EXCEPT ![t] = AfterFetch]
    /\ lpath' = [lpath EXCEPT ![t] = <<CurPostId(t)>>]
    /\ UNCHANGED <<streamVars, dlVars, regVars, run_mode, post_db_client, batch, max_download_parallel,
                   enable_post_masquerade, store_ok, links, post_db_lock,
                   litems, lstatus, rounds>>

\* launchers.py 47-72: get_all_media_by_type and a Downloader for the page.
FetchMedia(t) ==
    /\ run_mode = "media"
    /\ lpc[t] = "fetch"
    /\ shist' = [shist EXCEPT !.fetched = @ \cup {t}, !.started = @ \cup {t}]
    /\ lpc' = [lpc EXCEPT ![t] = "download"]
    /\ litems' = [litems EXCEPT ![t] = NoItems]
    /\ rounds' = [rounds EXCEPT ![t] = @ + 1]
    /\ UNCHANGED <<streamVars, dlVars, regVars, run_mode, post_db_client, batch, max_download_parallel,
                   enable_post_masquerade, store_ok, links, post_db_lock, lpath,
                   lstatus>>

\* launchers.py 311: async with post_db_lock, around the registry sequence.
LockRegistry(t) ==
    /\ lpc[t] = "lock_wait"
    /\ LockFree(post_db_lock[CurCreator(t)])
    /\ post_db_lock' = [post_db_lock EXCEPT ![CurCreator(t)] = t]
    /\ lpc' = [lpc EXCEPT ![t] = "by_id"]
    /\ UNCHANGED <<streamVars, dlVars, regVars, run_mode, post_db_client, batch, max_download_parallel,
                   enable_post_masquerade, store_ok, links, lpath,
                   litems, lstatus, rounds, shist>>

\* launchers.py 191-193 / 311-313: get_post(post.id); the stored path when
\* there is a row.
LookupById(t) ==
    /\ lpc[t] = "by_id"
    /\ LET c == CurCreator(t)
           existing == get_post(registry[c], CurPostId(t))
       IN  /\ lpath' = [lpath EXCEPT ![t] = ResolvedPath(existing, @)]
           /\ lpc' = [lpc EXCEPT ![t] = IF CreatesRow(existing) THEN "by_path" ELSE "mkdir"]
           /\ post_db_lock' = [post_db_lock EXCEPT ![c] =
                                 IF ~CreatesRow(existing) /\ @ = t THEN 0 ELSE @]
           /\ shist' = [shist EXCEPT !.unlocked = @ \/ post_db_lock[c] # t]
    /\ UNCHANGED <<streamVars, dlVars, regVars, run_mode, post_db_client, batch, max_download_parallel,
                   enable_post_masquerade, store_ok, links,
                   litems, lstatus, rounds>>

\* launchers.py 195-202 / 315-322: the name from the title, get_posts_by_path.
LookupByPath(t) ==
    /\ lpc[t] = "by_path"
    /\ LET c == CurCreator(t)
       IN  /\ lpath' = [lpath EXCEPT ![t] =
                              NewPostPath(registry[c], PostTitle, CurPostId(t))]
           /\ shist' = [shist EXCEPT !.unlocked = @ \/ post_db_lock[c] # t]
    /\ lpc' = [lpc EXCEPT ![t] = "create"]
    /\ UNCHANGED <<streamVars, dlVars, regVars, run_mode, post_db_client, batch, max_download_parallel,
                   enable_post_masquerade, store_ok, links, post_db_lock,
                   litems, lstatus, rounds>>

\* launchers.py 203 / 323: create_post; the lock, if held, is left.
CreateEntry(t) ==
    /\ lpc[t] = "create"
    /\ LET c == CurCreator(t)
       IN  /\ registry' = [registry EXCEPT ![c] = create_post(@, lpath[t], CurPostId(t))]
           /\ post_db_lock' = [post_db_lock EXCEPT ![c] = IF @ = t THEN 0 ELSE @]
           /\ shist' = [shist EXCEPT !.unlocked = @ \/ post_db_lock[c] # t,
                                     !.created = @ \cup {t}]
    /\ lpc' = [lpc EXCEPT ![t] = "mkdir"]
    /\ UNCHANGED <<streamVars, dlVars, rhist, run_mode, post_db_client, batch, max_download_parallel,
                   enable_post_masquerade, store_ok, links, lpath,
                   litems, lstatus, rounds>>

\* launchers.py 205-216 / 325-337: the post's directory and its Downloader.
MakeDir(t) ==
    /\ lpc[t] = "mkdir"
    /\ shist' = [shist EXCEPT !.dirs = @ \cup {t}, !.started = @ \cup {t}]
    /\ litems' = [litems EXCEPT ![t] = NoItems]
    /\ rounds' = [rounds EXCEPT ![t] = @ + 1]
    /\ lpc' = [lpc EXCEPT ![t] = "download"]
    /\ UNCHANGED <<streamVars, dlVars, regVars, run_mode, post_db_client, batch, max_download_parallel,
                   enable_post_masquerade, store_ok, links, post_db_lock, lpath,
                   lstatus>>

\* downloader.py 104: async with self._semaphore, of the task's Downloader;
\* the litems were started in pool order and enter in that order.
EnterItem(t, i) ==
    /\ lpc[t] = "download"
    /\ litems[t][i] = "wait"
    /\ \A j \in 1..(i - 1) : litems[t][j] # "wait"
    /\ SlotFree(Cardinality(InsideOf(t)), max_parallel_downloads(max_download_parallel))
    /\ litems' = [litems EXCEPT ![t][i] = "in"]
    /\ UNCHANGED <<streamVars, dlVars, regVars, run_mode, post_db_client, batch, max_download_parallel,
                   enable_post_masquerade, store_ok, links, lpc, post_db_lock, lpath,
                   lstatus, rounds, shist>>

\* downloader.py 104-114: the item leaves the semaphore with its status.
FinishItem(t, i, item_status) ==
    /\ lpc[t] = "download"
    /\ litems[t][i] = "in"
    /\ litems' = [litems EXCEPT ![t][i] = item_status]
    /\ UNCHANGED <<streamVars, dlVars, regVars, run_mode, post_db_client, batch, max_download_parallel,
                   enable_post_masquerade, store_ok, links, lpc, post_db_lock, lpath,
                   lstatus, rounds, shist>>

\* launchers.py 361-403, main.py 145-148: the gather of a single-post sync
\* returns; the sync returns its status and leaves the limiter.
ReturnLonely(t) ==
    /\ run_mode = "links"
    /\ lpc[t] = "download"
    /\ AllItemsDone(t)
    /\ lstatus' = [lstatus EXCEPT ![t] = LonelyStatus(litems[t])]
    /\ lpc' = [lpc EXCEPT ![t] = "ended"]
    \* launchers.py 392-393: if post_db_client: post_db_client.close()
    /\ post_db_client' = [post_db_client EXCEPT ![t] = IF @ = "open" THEN "closed" ELSE @]
    /\ UNCHANGED <<streamVars, dlVars, regVars, run_mode, batch, max_download_parallel,
                   enable_post_masquerade, store_ok, links, post_db_lock, lpath,
                   litems, rounds, shist>>

\* launchers.py 72-78 / 240-245: the Downloader of a stream has returned; the
\* stream goes on with its next page or post, or ends after the last one.
NextRound(t, last) ==
    /\ run_mode # "links"
    /\ lpc[t] = "download"
    /\ AllItemsDone(t)
    /\ last \/ rounds[t] < MaxRounds
    /\ run_mode = "posts" => (last <=> rounds[t] = MaxRounds)
    /\ lpc' = [lpc EXCEPT ![t] =
                 IF last THEN "ended"
                 ELSE IF run_mode = "media" THEN "fetch"
                 ELSE IF enable_post_masquerade THEN "by_id" ELSE "mkdir"]
    /\ lpath' = [lpath EXCEPT ![t] =
                       IF run_mode = "posts" /\ ~last THEN <<CurPostId(t)>> ELSE @]
    \* launchers.py 70: a media stream does not keep what its Downloader returned.
    /\ litems' = IF run_mode = "media" THEN [litems EXCEPT ![t] = NoItems] ELSE litems
    \* launchers.py 249-250: the posts stream closes its client after the loop.
    /\ post_db_client' = [post_db_client EXCEPT ![t] =
                            IF last /\ @ = "open" THEN "closed" ELSE @]
    /\ UNCHANGED <<streamVars, dlVars, regVars, run_mode, batch, max_download_parallel,
                   enable_post_masquerade, store_ok, links, post_db_lock,
                   lstatus, rounds, shist>>

\* downloader.py 139-140, launchers.py 364-370, 389-391: the paths of the
\* files a sync found incomplete, as it returns them.
IncompleteOf(t) ==
    {<<CurCreator(t), lpath[t], i>> : i \in {k \in SyncItems : litems[t][k] = "incomplete"}}

BucketOf_Optimistic(link_status) ==
    IF link_status = "skipped" THEN "skipped" ELSE "succeeded"
\* main.py 155-162: the list a link is filed under.
BucketOf(link_status) ==
    IF link_status = "downloaded" THEN "succeeded"
    ELSE IF link_status = "skipped" THEN "skipped"
    ELSE IF link_status = "ok" THEN "succeeded"
    ELSE "failed"

\* main.py 147-162: the gather of the links has returned; main files every
\* result.
Aggregate ==
    /\ batch.pc = "gather"
    /\ \A t \in Tasks : lpc[t] = "ended"
    /\ batch' = [batch EXCEPT
          !.pc = "report",
          !.incomplete_links = {t \in Tasks : IncompleteOf(t) # {}},
          !.incomplete_files_all = UNION {IncompleteOf(t) : t \in Tasks},
          !.succeeded_links = {t \in Tasks : BucketOf(lstatus[t]) = "succeeded"},
          !.skipped_links = {t \in Tasks : BucketOf(lstatus[t]) = "skipped"},
          !.failed_links = {t \in Tasks : BucketOf(lstatus[t]) = "failed"}]
    /\ UNCHANGED <<streamVars, dlVars, regVars, run_mode, post_db_client, max_download_parallel,
                   enable_post_masquerade, store_ok, links, lpc, post_db_lock, lpath,
                   litems, lstatus, rounds, shist>>

\* main.py 165-208: the report. The question is put inside the branch of the
\* skipped links; on "yes" every listed file is unlinked (a failed unlink is
\* logged and passed over: gone is what was removed) and the links that
\* reported incomplete files are synced again, one after the other, their
\* results not filed.
Report(yes, gone) ==
    /\ batch.pc = "report"
    /\ IF batch.skipped_links # {} /\ batch.incomplete_files_all # {}
       THEN /\ yes \/ gone = {}
            /\ batch' = [batch EXCEPT
                  !.pc = "done", !.asked = TRUE, !.consent = yes, !.deleted = gone,
                  !.rerun = IF yes THEN batch.incomplete_links ELSE {}]
       ELSE /\ ~yes /\ gone = {}
            /\ batch' = [batch EXCEPT !.pc = "done"]
    /\ UNCHANGED <<streamVars, dlVars, regVars, run_mode, post_db_client, max_download_parallel,
                   enable_post_masquerade, store_ok, links, lpc, post_db_lock, lpath,
                   litems, lstatus, rounds, shist>>

SyncNext ==
    \/ \E t \in Tasks : AcquireSlot(t)
    \/ \E t \in Tasks : Begin(t)
    \/ \E t \in Tasks : LockForEnsure(t)
    \/ \E t \in Tasks : Ensure(t)
    \/ \E t \in Tasks, fetch_status \in FetchStatuses, loaded \in BOOLEAN :
          FetchPost(t, fetch_status, loaded)
    \/ \E t \in Tasks : FetchPosts(t)
    \/ \E t \in Tasks : FetchMedia(t)
    \/ \E t \in Tasks : LockRegistry(t)
    \/ \E t \in Tasks : LookupById(t)
    \/ \E t \in Tasks : LookupByPath(t)
    \/ \E t \in Tasks : CreateEntry(t)
    \/ \E t \in Tasks : MakeDir(t)
    \/ \E t \in Tasks, i \in SyncItems : EnterItem(t, i)
    \/ \E t \in Tasks, i \in SyncItems, item_status \in Outcomes : FinishItem(t, i, item_status)
    \/ \E t \in Tasks : ReturnLonely(t)
    \/ \E t \in Tasks, last \in BOOLEAN : NextRound(t, last)
    \/ \E t \in Tasks : FetchRaises(t)
    \/ Aggregate
    \/ \E yes \in BOOLEAN, gone \in SUBSET batch.incomplete_files_all : Report(yes, gone)

\* No sync runs.
SyncIdle ==
    /\ run_mode = "links"
    /\ max_download_parallel = 1
    /\ enable_post_masquerade = FALSE
    /\ store_ok = [c \in Creators |-> TRUE]
    /\ links = LinkQueue(FALSE)
    /\ lpc = [t \in Tasks |-> "ended"]
    /\ post_db_lock = [c \in Creators |-> 0]
    /\ lpath = [t \in Tasks |-> <<"/">>]
    /\ litems = [t \in Tasks |-> NoItems]
    /\ lstatus = [t \in Tasks |-> "none"]
    /\ rounds = [t \in Tasks |-> 0]
    /\ shist = NoShist
    /\ batch = NoBatch({}, "off")
    /\ post_db_client = [t \in Tasks |-> "none"]

\* The variables of the other component, at rest.
DlIdle ==
    /\ pool = [i \in DlItems |->
                 [path |-> i, kind |-> "p", playlist |-> FALSE, meta |-> FALSE]]
    /\ width = 1
    /\ save_meta = FALSE
    /\ fsdir = [n \in Names |-> 0]
    /\ inodes = [k \in 1..MaxInodes |-> {}]
    /\ tpc = [i \in DlItems |-> "done"]
    /\ fd = [i \in DlItems |-> 0]
    /\ pos = [i \in DlItems |-> 0]
    /\ result = [i \in DlItems |-> "none"]
    /\ stats = NoStats
    /\ incomplete_files = {}
    /\ invocations = MaxInvocations
    /\ returned = [k \in Kinds |-> NotReturned]
    /\ processed = NoProcessed
    /\ dhist = [items |-> [i \in DlItems |-> NoDhist], legacy |-> {}]

StreamIdle ==
    /\ mode = "media"
    /\ writeThrough = FALSE
    /\ feed = <<None>>
    /\ disk = [completed |-> None, runtime |-> NoToken]
    /\ mem = disk
    /\ files = {}
    /\ pc = "off"
    /\ offset = NoToken /\ eot = None /\ fot = None /\ is_last = FALSE
    /\ got_offset = NoToken
    /\ page = 0 /\ unit = 0
    /\ st = NoStatus /\ outcome = NoStatus
    /\ runs = MaxRuns
    /\ hist = FreshHist(disk, NoToken,
                        [crashes |-> 0, graceful |-> 0, lastDone |-> None,
                         base |-> None, errors |-> 0, afterGraceful |-> FALSE,
                         finished |-> {}])

Next ==
    \/ Main
    \/ FetchPage
    \/ \E i \in AllItems : StartItem(i)
    \/ \E i \in AllItems : ItemPassed(i)
    \/ \E i \in AllItems : ItemDownloaded(i)
    \/ \E i \in AllItems : ItemError(i)
    \/ GatherDone
    \/ SavePage
    \/ ClearRuntime
    \/ RaiseCompleted
    \/ FinalSave
    \/ SaveFails
    \/ Crash
    \/ NextRun

\* The stream is started; no Downloader of the other specification runs.
Init == StreamInit /\ DlIdle /\ RegInit /\ SyncIdle

Spec == Init /\ [][Next]_vars

DlNext ==
    \/ \E i \in DlItems : Enter(i)
    \/ \E i \in DlItems : Probe(i)
    \/ \E i \in DlItems : OpenPart(i)
    \/ \E i \in DlItems : WriteChunk(i)
    \/ \E i \in DlItems : TransferFails(i)
    \/ \E i \in DlItems : Rename(i)
    \/ \E i \in DlItems : RenameFails(i)
    \/ \E i \in DlItems : WriteMeta(i)
    \/ \E i \in DlItems : WriteMetaFails(i)
    \/ \E k \in Kinds : Gather(k)
    \/ NextInvocation
    \/ DlRestart

\* A Downloader is invoked; the stream of the other specification is at rest.
DlStart == DlInit /\ StreamIdle /\ RegInit /\ SyncIdle

DlSpec == DlStart /\ [][DlNext]_vars

\* The registry is used; the stream and the Downloader are at rest.
RegStart == RegInit /\ StreamIdle /\ DlIdle /\ SyncIdle
RegSpec == RegStart /\ [][RegNext]_vars
\* Syncs run at the same time; the stream and the Downloader of the other
\* specifications are at rest, the registry is empty.
SyncStart == SyncInit /\ StreamIdle /\ DlIdle /\ RegInit
SyncSpec == SyncStart /\ [][SyncNext]_vars
\* The event loop runs every task that can go on, and every fetch, lock
\* and transfer a task waits for ends.  The fair behaviours examined are the
\* creator streams and the batches in which a path store cannot be opened.
SyncFairStart ==
    /\ SyncStart
    /\ run_mode = "links" =>
          enable_post_masquerade /\ \E c \in Creators : ~store_ok[c]
SyncFair == SyncFairStart /\ [][SyncNext]_vars /\ WF_vars(SyncNext)

(***************************************************************************)
(* Properties of the Pagination Driver.                                    *)
(***************************************************************************)
Running == pc \in {"fetch", "download", "save"}
LoopEnded == pc \in {"finish", "raise", "finalsave", "done"}
LastFetched == hist.fetched[Len(hist.fetched)]
DownloadsInProgress ==
    pc = "download" /\ \E i \in CurrentUnit : st[i] \in {"pending", "active"}

\* C1: once a fetched page returned a parsed offset P <= E (E the stored
\* completed_offset), that page is the last one fetched in the run, for every
\* E and P (0 included): no further fetch is pending or issued, and when the
\* loop has ended the page's items all went through the Download Manager.
C1_HighWaterTermination ==
    hist.hwPage # 0 =>
        /\ LastFetched = hist.hwPage
        /\ pc # "fetch"
        /\ LoopEnded => \A i \in ItemsOf(hist.hwPage) : st[i] = "done"

\* C2: after a graceful end of the page loop the persisted runtime_offset is
\* unset and completed_offset is max(old, fot) when fot was set (fot being the
\* parsed offset of the first page fetched in the run), unchanged otherwise.
C2_GracefulCompletion ==
    pc = "done" =>
        /\ disk.runtime = NoToken
        /\ fot # None => fot = hist.firstParsed
        /\ disk.completed = IF fot # None THEN Max(hist.oldCompleted, fot)
                            ELSE hist.oldCompleted

\* C2's example: eot = 1, pages returning 2 then 1, a third page never fetched.
C2_Witness ==
    /\ pc = "done"
    /\ hist.oldCompleted = 1 /\ Len(feed) = 3 /\ feed[1] = 2 /\ feed[2] = 1
    /\ hist.fetched = <<1, 2>>
    /\ disk = [completed |-> 2, runtime |-> NoToken]


\* What one uninterrupted run from the first page leaves as fot, by the loop
\* of launchers.py 46-78 over pages k, k+1, ...
RECURSIVE ScanFot(_, _, _, _)
ScanFot(f, e, k, cur) ==
    LET parsed == parse_offset_time(TokenOf(f, k))
        nf == NewFot(cur, parsed)
    IN  IF IsLast(k >= Len(f), e, parsed) THEN nf ELSE ScanFot(f, e, k + 1, nf)

UninterruptedCompleted(f, c) == RaisedCompleted(c, ScanFot(f, EotOf(c), 1, None))

\* C3: a run that resumes from the persisted runtime_offset after a crash ends
\* with the completed_offset a single uninterrupted run over the same feed
\* would have left.  Stated for a first run interrupted once, before the
\* checkpoint of the page after the one the restart resumes at (so N < M).
C3_ResumeSameCompleted ==
    (/\ pc = "done" /\ hist.resumed
     /\ hist.graceful = 1 /\ hist.crashes = 1
     /\ hist.fetched[1] < Len(feed)) =>
        disk.completed = UninterruptedCompleted(feed, hist.base)

\* The checkpoint on disk while the first downloads of a page are running: the
\* token the page before was fetched with, or what the run found on disk.
PreviousCheckpoint ==
    IF Len(hist.tokens) >= 2 /\ TruthyToken(hist.tokens[Len(hist.tokens) - 1])
    THEN hist.tokens[Len(hist.tokens) - 1]
    ELSE hist.rtAtStart

C5_CompletedMonotone ==
    [][ /\ disk'.completed >= disk.completed
        /\ disk'.completed # disk.completed => pc \in {"raise", "finalsave"} ]_vars

\* completed_offset was raised by a run that resumed after a crash.
C5_Witness ==
    /\ pc = "done" /\ hist.crashes >= 1 /\ hist.resumed
    /\ disk.completed > hist.base /\ hist.base # None

\* C6: a sync that follows a gracefully completed sync of the same feed, with
\* the local files untouched, classifies no item downloaded and leaves
\* completed_offset as the first one left it.  Stated for the runs in which no
\* transfer has failed, where every scanned item has its file: the claim covers
\* more, and fails already there.
C6_Idempotence ==
    (hist.afterGraceful /\ pc # "boot" /\ hist.errors = 0) =>
        /\ hist.downloaded = {}
        /\ pc = "done" => disk.completed = hist.oldCompleted

\* C7: no page fetch is pending or issued while an item download of the page
\* before (post mode: of any of its posts) has not returned its outcome.
C7_PageSequencing ==
    (pc = "fetch" /\ page > 0) =>
        \A i \in ItemsOf(page) : st[i] = "done" /\ outcome[i] # "none"

\* The second page is about to be fetched after both downloads of the first.
C7_Witness ==
    /\ pc = "fetch" /\ page = 1 /\ mode = "media"
    /\ outcome[<<1, 1>>] = "error" /\ outcome[<<1, 2>>] = "downloaded"


(***************************************************************************)
(* Properties of the Download Manager.                                     *)
(***************************************************************************)
Ended(i) == tpc[i] = "done" /\ result[i] # "none"
H(i) == dhist.items[i]

\* C8: an item whose final file exists is classified incomplete exactly when
\* the URL is no playlist, a non-zero expected length was obtained and
\* actual_size < 0.8 x expected_length, and passed in every other case; no
\* transfer is started and nothing is renamed onto the file.
C8_ExistingFileClassification ==
    \A i \in DlItems :
        /\ (Ended(i) /\ H(i).existed) =>
            /\ result[i] =
                 IF /\ ~pool[i].playlist
                    /\ H(i).expected # None /\ H(i).expected # 0
                    /\ 10 * H(i).actual < 8 * H(i).expected
                 THEN "incomplete" ELSE "passed"
            /\ ~H(i).opened /\ ~H(i).renamed
        /\ (Ended(i) /\ result[i] \in {"passed", "incomplete"}) => H(i).existed

\* An existing file of exactly 0.8 x the expected length is passed.
C8_Witness ==
    \E i \in DlItems :
        /\ Ended(i) /\ H(i).existed /\ result[i] = "passed"
        /\ H(i).actual = 4 /\ H(i).expected = 5

\* C9: a final path never holds a partially transferred file, whatever crashed
\* or failed, and an item is classified downloaded only after its rename.
C9_AtomicFinalization ==
    /\ \A q \in Paths :
        (fsdir[Final(q)] # 0 /\ q \notin dhist.legacy) =>
            inodes[fsdir[Final(q)]] = Full
    /\ \A i \in DlItems : result[i] = "downloaded" => H(i).renamed

\* Every deletion of a leftover .part file has succeeded so far.
DeletionsSucceeded == \A i \in DlItems : H(i).hadPart => H(i).unlinked

\* C10: a .part file found when the procedure starts is deleted before the
\* existence check, a transfer starts from zero bytes and the .part file holds
\* what that transfer has written, and after an outcome downloaded, passed or
\* incomplete no .part file is left for the path.  Stated for the executions in
\* which no deletion was refused (downloader.py 38-41 logs a refused one and
\* goes on, the marker staying): the claim covers more, and fails already there.
C10_PartDiscarded ==
    DeletionsSucceeded =>
        \A i \in DlItems :
            /\ (tpc[i] = "write" /\ \A j \in DlItems \ {i} : fd[j] # fd[i]) =>
                inodes[fd[i]] = 1..pos[i]
            /\ result[i] \in {"downloaded", "passed", "incomplete"} =>
                fsdir[PartOf(pool[i].path)] = 0

\* The statuses a kind's download returned, and the items they belong to.
Results(k) == returned[k].results
OrderOf(k) == InOrder(ItemsOfKind(pool, k))

\* C11: a kind's download returns one outcome per item of the kind, in the order
\* of the pool; the outcome is error exactly for the items whose procedure
\* raised, and every other item has the outcome of its own procedure (passed or
\* incomplete for an existing file, downloaded after its rename); the returned
\* incomplete paths are exactly the paths of the incomplete outcomes.
C11_FailureIsolation ==
    \A k \in Kinds :
        returned[k] # NotReturned =>
            /\ Len(Results(k)) = Cardinality(ItemsOfKind(pool, k))
            /\ \A j \in 1..Len(Results(k)) :
                LET i == OrderOf(k)[j]
                IN  /\ Results(k)[j] \in Statuses
                    /\ (Results(k)[j] = "error") <=> H(i).raised
                    /\ ~H(i).raised =>
                        IF H(i).existed THEN Results(k)[j] \in {"passed", "incomplete"}
                        ELSE Results(k)[j] = "downloaded" /\ H(i).renamed
            /\ Len(returned[k].incomplete_paths) =
                   Cardinality({j \in 1..Len(Results(k)) : Results(k)[j] = "incomplete"})
            /\ \A q \in Paths :
                (\E n \in 1..Len(returned[k].incomplete_paths) :
                    returned[k].incomplete_paths[n] = q)
                <=> (\E j \in 1..Len(Results(k)) :
                        Results(k)[j] = "incomplete" /\ pool[OrderOf(k)[j]].path = q)

\* The first video failed in its transfer, the second was downloaded all the same.
C11_Witness ==
    /\ returned["v"] # NotReturned
    /\ Results("v") = <<"error", "downloaded">>
    /\ H(1).opened /\ H(1).raised /\ H(2).renamed

\* C12: every returned outcome has incremented exactly one counter of the item's
\* kind: downloaded for downloaded, error for error, passed for passed and for
\* incomplete; the three counters add up to the items processed, and the path
\* of every incomplete outcome is in the incomplete-files list.
C12_OutcomeAccounting ==
    /\ \A k \in Kinds :
        /\ stats[k].downloaded = processed[k]["downloaded"]
        /\ stats[k].error = processed[k]["error"]
        /\ stats[k].passed = processed[k]["passed"] + processed[k]["incomplete"]
        /\ stats[k].passed + stats[k].downloaded + stats[k].error =
               processed[k]["downloaded"] + processed[k]["error"]
               + processed[k]["passed"] + processed[k]["incomplete"]
    /\ \A i \in DlItems : result[i] = "incomplete" => pool[i].path \in incomplete_files

\* Two invocations of one process: the video's file is found incomplete twice,
\* the photo is downloaded by the first and passed by the second.
C12_Witness ==
    /\ invocations = 2
    /\ processed["v"]["incomplete"] = 2
    /\ processed["p"]["downloaded"] = 1 /\ processed["p"]["passed"] = 1
    /\ stats["v"] = [passed |-> 2, downloaded |-> 0, error |-> 0]
    /\ incomplete_files = {1}

\* C13: at most width items of one Downloader are inside the per-item procedure.
C13_WidthBound == Cardinality(Inside) <= width

\* With width 1 a photo waits for the slot while the video is being transferred.
C13_Witness ==
    /\ width = 1 /\ Inside = {1} /\ tpc[1] = "write" /\ tpc[2] = "wait"
    /\ pool[1].kind = "v" /\ pool[2].kind = "p"

(***************************************************************************)
(* Properties of the Path Registry.                                        *)
(***************************************************************************)
\* The rows the last resolve found for its post id.
RowsBefore == {n \in 1..Len(rhist.before) : rhist.before[n].post_id = rhist.id}

\* C16: a resolve of a post id that has a row returns the stored path and
\* leaves the registry as it was, whatever the title.
C16_PathStability ==
    (rhist.n > 0 /\ RowsBefore # {}) =>
        /\ \A n \in RowsBefore : rhist.path = rhist.before[n].post_path
        /\ registry[rhist.creator] = rhist.before

\* Post 1 got the path "a"; after two other resolves it is resolved with the
\* title "2" and keeps "a".
C16_Witness ==
    /\ rhist.n = 4 /\ rhist.id = "1" /\ rhist.title = <<"2">>
    /\ rhist.path = <<"a">> /\ Len(rhist.before) = 3
    /\ rhist.before[1] = [post_id |-> "1", post_path |-> <<"a">>]

\* C17: in every creator's registry no two rows share a post id and no two rows
\* share a path.
C17_RegistryUnique ==
    \A c \in Creators : \A m, n \in 1..Len(registry[c]) :
        m # n => /\ registry[c][m].post_id # registry[c][n].post_id
                 /\ registry[c][m].post_path # registry[c][n].post_path

\* The name the claim gives a post without a row.
ClaimedName == IF rhist.title = << >> THEN <<rhist.id>>
               ELSE validate_windows_dir_name(rhist.title)

\* C18: a resolve of a post id without a row adds one row for it, with the path
\* name_postid when the name (the sanitized title, or the post id for an empty
\* title) is the path of a row already there, and the name itself otherwise.
C18_CollisionHandling ==
    (rhist.n > 0 /\ RowsBefore = {}) =>
        /\ rhist.path =
              IF \E n \in 1..Len(rhist.before) : rhist.before[n].post_path = ClaimedName
              THEN ClaimedName \o <<"_", rhist.id>> ELSE ClaimedName
        /\ registry[rhist.creator] =
              Append(rhist.before, [post_id |-> rhist.id, post_path |-> rhist.path])

\* Posts 1 and 2 both carry the title "a": the rows are "a" and "a_2".
C18_Witness ==
    /\ rhist.n = 2 /\ rhist.id = "2" /\ rhist.title = <<"a">>
    /\ registry[rhist.creator] = << [post_id |-> "1", post_path |-> <<"a">>],
                                    [post_id |-> "2", post_path |-> <<"a", "_", "2">>] >>

\* The transfers in flight in all Downloaders, and the syncs whose Downloader
\* is at work.
InFlight == Cardinality({x \in Tasks \X SyncItems : litems[x[1]][x[2]] = "in"})
ActiveSyncs == {t \in Tasks : lpc[t] = "download"}

\* C14: the download bound is local to a Downloader: with S syncs (streams of
\* a media sync, or single-post syncs of a batch) at work at once, each with
\* its own Downloader of width W, never more than S x W transfers are in
\* flight, and no Downloader holds more than W of them; S x W is reached.
C14_LocalBound ==
    /\ InFlight <= Cardinality(ActiveSyncs) * max_download_parallel
    /\ \A t \in Tasks : Cardinality(InsideOf(t)) <= max_download_parallel
    /\ \A t \in Tasks : InsideOf(t) # {} => t \in ActiveSyncs

\* Every stream of a media sync is at work and all S x W slots are taken,
\* more than one Downloader alone could hold.
C14_Witness ==
    /\ run_mode = "media"
    /\ max_download_parallel = MaxWidth
    /\ ActiveSyncs = Tasks
    /\ InFlight = MaxTasks * MaxWidth
    /\ InFlight > max_download_parallel

\* C15: in link-list mode at most max(1, max_download_parallel) single-post
\* syncs run at any moment, however many links are queued.
C15_BatchLimiter ==
    run_mode = "links" =>
        Cardinality(RunningSyncs) <= Max(1, max_download_parallel)

\* The limiter is full and a link waits for it.
C15_Witness ==
    /\ run_mode = "links"
    /\ max_download_parallel = 2
    /\ Cardinality(RunningSyncs) = 2
    /\ \E t \in Tasks : lpc[t] = "queued"

\* The tasks inside a registry sequence: lookup by post id, lookup by path,
\* entry creation.
RegistrySteps == {"by_id", "by_path", "create"}
InRegistry == {t \in Tasks : lpc[t] \in RegistrySteps}
HoldsLock(t) == post_db_lock[CurCreator(t)] = t

C21_FailureLoud ==
    \A t \in shist.refused :
        lpc[t] = "ended" => lstatus[t] \notin {"none", "downloaded", "skipped", "ok"}

\* C27: the metadata of an item is written only if saving metadata is on,
\* the item is a video carrying metadata and its transfer succeeded; the write
\* comes after the rename onto the final path, and never for a photo nor for
\* an item whose outcome is passed or incomplete.
C27_MetadataStep ==
    \A i \in DlItems :
        /\ (tpc[i] = "meta" \/ H(i).wroteMeta) =>
              /\ save_meta /\ pool[i].kind = "v" /\ pool[i].meta
              /\ H(i).opened /\ H(i).renamed
              /\ ~H(i).existed
        /\ H(i).wroteMeta => result[i] = "downloaded"
        /\ tpc[i] = "meta" => fsdir[PartOf(pool[i].path)] = 0 \/ \E j \in DlItems \ {i} :
                                                                   pool[j].path = pool[i].path
        /\ result[i] \in {"passed", "incomplete"} => ~H(i).wroteMeta
        /\ (result[i] = "downloaded" /\ save_meta /\ pool[i].kind = "v" /\ pool[i].meta) =>
              H(i).wroteMeta

\* With saving on, the video has been renamed and its metadata written, and
\* the photo, whose record holds metadata, has been downloaded without.
C27_Witness ==
    /\ save_meta
    /\ pool[2].kind = "p" /\ pool[2].meta
    /\ H(1).renamed /\ H(1).wroteMeta /\ result[1] = "downloaded"
    /\ result[2] = "downloaded" /\ ~H(2).wroteMeta

\* C28: no item is left behind the high-water mark: after a first-ever sync
\* and one more sync of the stream, both ended gracefully and without a
\* crash, every item of the feed has its file: an item whose transfer failed
\* in the first run was attempted again by the second.
C28_NothingLeftBehind ==
    (pc = "done" /\ hist.base = None /\ hist.crashes = 0 /\ hist.graceful = 2) =>
        \A p \in 1..Len(feed) : ItemsOf(p) \subseteq files

\* The page a crash would interrupt: the one being fetched, or the one whose
\* downloads or checkpoint save are under way.
PageInHand == IF pc = "fetch" THEN PagePos(offset) ELSE page

\* C29 as stated: at any point of a stream run the runtime offset on disk is
\* unset or the token of a page at or before the page being processed.
C29_RuntimeNotAhead ==
    (pc \notin {"boot", "done"} /\ disk.runtime # NoToken) =>
        PagePos(disk.runtime) <= PageInHand

\* C29, amended: at any point of a stream run the runtime offset on disk is
\* unset or a token such that every page before the one it fetches has had
\* all its downloads returned, in this run or an earlier one; in a run that
\* resumed, or that found no runtime offset, it is not ahead of the page
\* being processed.
C29_ResumeSkipsNothing ==
    disk.runtime # NoToken =>
        /\ \A q \in 1..(PagePos(disk.runtime) - 1) : q \in hist.finished
        /\ (pc \notin {"boot", "done"} /\ (hist.resumed \/ hist.rtAtStart = NoToken)) =>
              PagePos(disk.runtime) <= PageInHand

\* A run crashed with a runtime offset on disk, and the resumed run is
\* downloading again the page the token fetches, a page after the first.
C29_Witness ==
    /\ hist.crashes >= 1 /\ hist.resumed
    /\ hist.rtAtStart # NoToken /\ PagePos(hist.rtAtStart) >= 2
    /\ pc = "download" /\ page = PagePos(hist.rtAtStart)
    /\ hist.fetched = <<page>>

\* C30: at no time are two transfers in flight on one path: writing to the
\* same .part file, or about to rename it onto the same final file.
C30_OneWriterPerPath ==
    \A i, j \in DlItems :
        (i # j /\ tpc[i] \in {"write", "rename"} /\ tpc[j] \in {"write", "rename"}) =>
            pool[i].path # pool[j].path

C22_NotFoundDistinct ==
    /\ \A t \in shist.missing :
          /\ lpc[t] = "ended" /\ lstatus[t] = "not_found"
          /\ t \notin shist.dirs \cup shist.created \cup shist.started
          /\ litems[t] = NoItems
    /\ \A t \in Tasks : lstatus[t] = "not_found" => t \in shist.missing

\* Link 1 was not found; link 2 failed to load for another reason and ended
\* with "error"; the link of creator B was downloaded.
C22_Witness ==
    /\ enable_post_masquerade
    /\ 1 \in shist.missing /\ lstatus[1] = "not_found"
    /\ 2 \in shist.fetched \ shist.missing /\ lstatus[2] = "error" /\ litems[2] = NoItems
    /\ lstatus[MaxTasks] = "downloaded" /\ MaxTasks \in shist.created

\* C23: once the batch has been gathered, every queued link is in exactly one
\* of succeeded, skipped and failed; a link whose sync raised, or whose
\* creator's checkpoint store could not be prepared, is in failed, the latter
\* without having been fetched; every other link whose path store opens has
\* been fetched and has returned a status.
C23_BatchAggregation ==
    batch.pc \in {"report", "done"} =>
        /\ \A t \in Tasks :
              Cardinality({b \in {"succeeded_links", "skipped_links", "failed_links"} :
                              t \in batch[b]}) = 1
        /\ \A t \in Tasks :
              (t \in shist.raised \/ CurCreator(t) \in batch.sync_data_errors)
                  => t \in batch.failed_links
        /\ \A t \in Tasks :
              CurCreator(t) \in batch.sync_data_errors => t \notin shist.fetched
        /\ \A t \in Tasks :
              (CurCreator(t) \notin batch.sync_data_errors /\ t \notin shist.refused)
                  => t \in shist.fetched \cup shist.raised /\ lstatus[t] # "none"
        /\ \A t \in batch.succeeded_links : lstatus[t] \in {"downloaded", "ok"}
        /\ \A t \in batch.skipped_links : lstatus[t] = "skipped"

\* The checkpoint store of creator A could not be prepared and its two links
\* are filed as failed; the link of creator B was downloaded and is filed as
\* succeeded.
C23_Witness ==
    /\ batch.pc = "report"
    /\ batch.sync_data_errors = {"A"}
    /\ batch.failed_links = {1, 2}
    /\ batch.succeeded_links = {MaxTasks} /\ lstatus[MaxTasks] = "downloaded"

\* C24: a batch that has ended with any file found incomplete has put the
\* question of deleting and downloading again, whatever the statuses of its
\* links; after a "yes" the links synced again are exactly those that
\* reported incomplete files.
C24_RemediationOffered ==
    (batch.pc = "done" /\ batch.incomplete_files_all # {}) =>
        /\ batch.asked
        /\ batch.consent => batch.rerun = batch.incomplete_links

\* C25: no step of the Download Manager removes or replaces a file that is
\* present at a final destination.
C25_FinalFileKept ==
    [][\A q \in Paths : fsdir[Final(q)] # 0 => fsdir'[Final(q)] = fsdir[Final(q)]]_vars

\* C31: an item whose final file did not exist when its procedure started and
\* that ended in error has no file at its final destination.
C31_ErrorLeavesNoFinalFile ==
    \A i \in DlItems :
        (tpc[i] = "done" /\ result[i] = "error" /\ ~H(i).existed)
            => fsdir[Final(pool[i].path)] = 0

\* C32: once the batch has been gathered, a link whose fetch yielded no post
\* is in failed, and a link in succeeded has its post loaded and no item of
\* it ended in error.
C32_UnloadedNeverSucceeded ==
    batch.pc \in {"report", "done"} =>
        /\ \A t \in shist.fetched :
              lpath[t] = <<"/">> => t \in batch.failed_links
        /\ \A t \in batch.succeeded_links :
              /\ lpath[t] # <<"/">>
              /\ \A i \in SyncItems : litems[t][i] # "error"

\* C33: under a fair event loop, for every max_download_parallel, every sync
\* eventually returns and a batch eventually ends its report.
C33_Termination ==
    <>[](/\ \A t \in Tasks : lpc[t] \in {"off", "ended"}
         /\ run_mode = "links" => batch.pc = "done")

\* C34: a sync that has returned has left no path-registry client open.
C34_ClientClosed ==
    \A t \in Tasks : lpc[t] = "ended" => post_db_client[t] # "open"
====
